---- MODULE Spec2Model ----
(***************************************************************************)
(* A state-machine model of compas_fea2_vedo/viewer.py: the FEA2Viewer     *)
(* base class, the ModelViewer that aggregates one PartViewer per part,    *)
(* and the PartViewer that derives meshes from a part's nodes.             *)
(*                                                                         *)
(* Coordinates, vectors and scale factors are integers; a vector length is *)
(* the integer square root of the squared norm, exact on the chosen data.  *)
(* Toolkit objects (meshes, glyphs, arrows, the grid) carry an id, their   *)
(* Python object identity; the plotter holds references to them.           *)
(***************************************************************************)
EXTENDS Integers, Sequences, FiniteSets, TLC

VARIABLES
    fea,        \* the external FEA model handed to ModelViewer.__init__,
                \* by its layout: node order, key order, number of parts
    npanels,    \* number of renderers of the Plotter (rows * cols of `shape`)
    parts,      \* ModelViewer._parts: the tracked part viewers
    grid,       \* FEA2Viewer.grid: None or the Grid actor
    plotter,    \* the Plotter: per-panel object lists and the current renderer
    nextId,     \* identity of the next toolkit object constructed
    ncalls,     \* number of public calls made so far
    last        \* the last public call: name, arguments, toolkit calls, outcome

vars == <<fea, npanels, parts, grid, plotter, nextId, ncalls, last>>

\* ------------------------------------------------------------------ bounds
MaxParts == 2
MaxNodes == 2
MaxCalls == 2
MaxPanels == 3

\* Python's Optional: None is the empty tuple, a value x is <<x>>.
None == <<>>

Some(x) == <<x>>

\* bool(x) of an optional number / an optional string
Truthy(o) == o # None /\ o[1] # 0

TruthyStr(o) == o # None /\ o[1] # ""

Steps == {1}
ScaleFactors == {2, -1}
\* The arguments add_node_field_results is called with:
\* <<draw_vectors, draw_cmap, draw_isolines, draw_isosurfaces>>
FieldRequests ==
    { <<None, None, None, None>>,
      <<Some(0), None, None, None>>,
      <<Some(0), None, Some(2), None>>,
      <<Some(2), None, None, None>>,
      <<Some(2), Some("jet"), None, None>>,
      <<Some(2), None, None, Some(2)>>,
      <<Some(2), Some("jet"), Some(2), Some(2)>> }
InputOrders == {"forward", "reverse"}
KeyOrders == {"ascending", "descending"}

\* ------------------------------------------------------- vectors (compas)
Add(a, b) == <<a[1] + b[1], a[2] + b[2], a[3] + b[3]>>

Sub(a, b) == <<a[1] - b[1], a[2] - b[2], a[3] - b[3]>>

Scaled(v, n) == <<v[1] * n, v[2] * n, v[3] * n>>

Isqrt(n) == CHOOSE r \in 0..n : r * r <= n /\ (r + 1) * (r + 1) > n

Length(v) == Isqrt(v[1] * v[1] + v[2] * v[2] + v[3] * v[3])

\* ---------------------------------------------------------------- sorting
\* A Python list built by a comprehension: the tuple of its items.
List(f) == f \o <<>>

\* Python's sorted(xs, key=...): a stable sort. Items are records with the
\* sort key in field k. The item at position i goes to the place given by
\* the number of items that sort before it.
Rank(s, i) ==
    1 + Cardinality({j \in 1..Len(s) :
                        s[j].k < s[i].k \/ (s[j].k = s[i].k /\ j < i)})

SortedByK(s) ==
    List([r \in 1..Len(s) |-> s[CHOOSE i \in 1..Len(s) : Rank(s, i) = r]])

Keyed(s, f) == List([i \in 1..Len(s) |-> [k |-> s[i][f], v |-> s[i]]])

Unkeyed(s) == List([i \in 1..Len(s) |-> s[i].v])

\* sorted(nodes, key=lambda n: n.<f>)
SortedBy(s, f) == Unkeyed(SortedByK(Keyed(s, f)))

\* F applied to the value of v, v evaluated once.
With(v, F(_)) == CHOOSE y \in {F(x) : x \in {v}} : TRUE

Reverse(s) == List([i \in 1..Len(s) |-> s[Len(s) + 1 - i]])

RECURSIVE Flatten(_)
Flatten(ss) == IF ss = <<>> THEN <<>> ELSE Head(ss) \o Flatten(Tail(ss))

\* ------------------------------------------------- the external FEA model
\* Node (p, k): k is its part_key, the index the part's connectivity uses.
NodeXYZ(p, k) == <<10 * (p - 1) + k, k % 2, k \div 2>>

NodeDisp(s, k) == IF k = 0 THEN <<s, 0, 0>> ELSE <<0, 0, 0>>

NodeResult(k) == IF k = 0 THEN <<0, 3, 4>> ELSE <<k, 0, 0>>

GlobalKey(ko, np, p, k) ==
    IF ko = "ascending" THEN (p - 1) * MaxNodes + k
    ELSE np * MaxNodes - 1 - ((p - 1) * MaxNodes + k)

MkNode(ko, np, p, k) ==
    [part |-> p, part_key |-> k, key |-> GlobalKey(ko, np, p, k),
     xyz |-> NodeXYZ(p, k),
     disp |-> [s \in Steps |-> NodeDisp(s, k)],
     result |-> NodeResult(k)]

MkPart(io, ko, np, p) ==
    LET fwd == List([i \in 1..MaxNodes |-> MkNode(ko, np, p, i - 1)])
    IN [name |-> p,
        nodes |-> IF io = "forward" THEN fwd ELSE Reverse(fwd),
        elements_connectivity |-> <<[i \in 1..MaxNodes |-> i - 1]>>]

\* A part by its name: parts 1..np are the model's, np + 1 is a part that
\* is not in the model (an argument of add_part).
PartNamed(p) == MkPart(fea.io, fea.ko, fea.np, p)

MkModel(io, ko, np) ==
    LET ps == List([p \in 1..np |-> MkPart(io, ko, np, p)])
    IN [parts |-> ps,
        bcs |-> <<[bc |-> "fixed", nodes |-> ps[1].nodes],
                  [bc |-> "pinned", nodes |-> <<ps[np].nodes[1]>>]>>]

model == MkModel(fea.io, fea.ko, fea.np)

spare == fea.np + 1

\* A mode shape of the model: one vector per node of the model.
ModeShape(m) ==
    LET locs == Flatten([p \in 1..Len(model.parts) |-> model.parts[p].nodes])
    IN [field_name |-> m,
        locations |-> locs,
        vectors |-> List([i \in 1..Len(locs) |->
                            <<0, 0, m * (locs[i].part_key + 1)>>])]

\* The shapes add_mode_shapes is called with, by mode number.
ShapeInputs == {<<1, 2>>}

\* --------------------------------------------------------- toolkit (vedo)
\* A reference to a toolkit object, as the plotter holds it. role and owner
\* record which viewer attribute the object was built for.
Ref(o) == [id |-> o.id, role |-> o.role, owner |-> o.owner]

Ids(s) == {s[i].id : i \in 1..Len(s)}

RECURSIVE AppendNew(_, _)
AppendNew(s, objs) ==
    IF objs = <<>> THEN s
    ELSE AppendNew(IF Head(objs).id \in Ids(s) THEN s ELSE Append(s, Head(objs)),
                   Tail(objs))

\* Plotter.add(objs): None entries are skipped and lists flattened by the
\* caller; an object already held by the current renderer is not added twice.
PlotterAdd(pl, objs) ==
    [pl EXCEPT !.panels[pl.renderer + 1] = AppendNew(@, objs)]

\* Plotter.remove(obj): from the current renderer.
PlotterRemove(pl, obj) ==
    LET s == pl.panels[pl.renderer + 1]
    IN [pl EXCEPT !.panels[pl.renderer + 1] =
            SelectSeq(s, LAMBDA r : r.id # obj.id)]

\* Plotter.at(i): makes renderer i the current one.
PlotterAt(pl, i) == [pl EXCEPT !.renderer = i]

\* TetMesh([vertices, cells]); of names, per vertex, the node it came from.
TetMesh(id, role, owner, vertices, cells, of) ==
    [id |-> id, role |-> role, owner |-> owner, vertices |-> vertices,
     cells |-> cells, of |-> of, cmap |-> None, scalarbar |-> None]

NodeId(n) == <<n.part, n.part_key>>

\* One toolkit call, in the order made: method f on object obj.
Call(f, o, arg) == [f |-> f, obj |-> o.id, owner |-> o.owner, arg |-> arg]

\* ------------------------------------------------------------- FEA2Viewer
point_size == 5

mesh_alpha == 1

\* mesh.cmap(cmap, values, on=on) as the toolkit applies it.
CmapOn(mesh, cmap, values, on) ==
    [mesh EXCEPT !.cmap = Some([name |-> cmap, values |-> values, on |-> on])]

\* (mutant) the guard as a truthiness test: `if values:`
ValuesTruthy(values) == values # None /\ values[1] # <<>>

\* The guard of add_cmap_to_mesh: whether the color map is applied.
ValuesGiven(values) == values # None

\* add_cmap_to_mesh(mesh, values, title, cmap, on). values is an optional
\* list. tk is the toolkit's answer to mesh.cmap: "ok", or "raises" (possible
\* only when len(values) differs from the mesh's point count, which the
\* viewer does not check). ret is the id of the returned object.
AddCmapToMesh(mesh, values, title, cmap, on, tk) ==
    IF ValuesGiven(values)
    THEN LET c == Call("cmap", mesh, [name |-> cmap, values |-> values[1], on |-> on])
         IN IF tk = "raises"
            THEN [mesh |-> mesh, ret |-> None, calls |-> <<c>>,
                  status |-> "RuntimeError"]
            ELSE [mesh |-> [CmapOn(mesh, cmap, values[1], on)
                                EXCEPT !.scalarbar = Some(title)],
                  ret |-> Some(mesh.id),
                  calls |-> <<c, Call("add_scalarbar", mesh, title)>>,
                  status |-> "ok"]
    ELSE [mesh |-> mesh, ret |-> Some(mesh.id), calls |-> <<>>, status |-> "ok"]

\* add_isolines_to_mesh(mesh, n): n isolines of the mesh's active scalars.
AddIsolinesToMesh(mesh, n, id) ==
    [obj |-> [id |-> id, role |-> "isolines", owner |-> mesh.owner, n |-> n,
              scalars |-> IF mesh.cmap = None THEN None
                          ELSE Some(mesh.cmap[1].values)],
     calls |-> <<Call("tomesh", mesh, None), Call("isolines", mesh, n)>>]

SeqMin(s) == CHOOSE x \in {s[i] : i \in 1..Len(s)} :
                \A i \in 1..Len(s) : x <= s[i]

SeqMax(s) == CHOOSE x \in {s[i] : i \in 1..Len(s)} :
                \A i \in 1..Len(s) : x >= s[i]

\* np.linspace(lo, hi, n), each value as the fraction num/den.
Linspace(lo, hi, n) ==
    IF n = 1 THEN <<[num |-> lo, den |-> 1]>>
    ELSE [i \in 1..n |-> [num |-> lo * (n - 1) + (i - 1) * (hi - lo),
                          den |-> n - 1]]

\* add_isosurfaces_to_mesh(mesh, n, scalars): one isosurface per threshold.
AddIsosurfacesToMesh(mesh, n, scalars, id) ==
    LET iso_values == Linspace(SeqMin(scalars), SeqMax(scalars), n)
    IN [objs |-> [i \in 1..n |->
                    [id |-> id + i - 1, role |-> "isosurface",
                     owner |-> mesh.owner, value |-> iso_values[i]]],
        calls |-> [i \in 1..n |-> Call("isosurface", mesh, iso_values[i])]]

\* ------------------------------------------------------------- PartViewer
\* part.points_sorted and the nodes sorted by part_key.
NodesSorted(part) == SortedBy(part.nodes, "part_key")

PointsSorted(part) == [i \in 1..Len(part.nodes) |-> NodesSorted(part)[i].xyz]

\* PartViewer.__init__(part): the point cloud takes id, the base mesh id + 1.
PartViewer(part, id) ==
    LET vertices == PointsSorted(part)
        srt == NodesSorted(part)
    IN [part |-> part.name,
        vertices |-> vertices,
        points |-> [id |-> id, role |-> "points", owner |-> part.name,
                    vertices |-> vertices, r |-> point_size],
        elements_connectivity |-> part.elements_connectivity,
        elements |-> TetMesh(id + 1, "elements", part.name, vertices,
                             part.elements_connectivity,
                             [i \in 1..Len(srt) |-> NodeId(srt[i])]),
        isolines |-> None,
        isosurfaces |-> None,
        field_vectors |-> None,
        deformed |-> None,
        shapes |-> <<>>]

\* The sort key of add_deformed_shape.
DeformedSortKey == "part_key"

\* (mutant) the displacement added unscaled
DeformedPointUnscaled(node, step, sf) == Add(node.xyz, node.disp[step])

\* The deformed position of one node.
DeformedPoint(node, step, sf) == Add(node.xyz, Scaled(node.disp[step], sf))

\* The connectivity a derived mesh is built with.
DerivedConnectivity(pv) == pv.elements_connectivity

\* PartViewer.add_deformed_shape(step, sf)
PVAddDeformedShape(pv, step, sf, id) ==
    LET srt == SortedBy(PartNamed(pv.part).nodes, DeformedSortKey)
        new_pts == [i \in 1..Len(srt) |-> DeformedPoint(srt[i], step, sf)]
    IN [pv |-> [pv EXCEPT !.deformed =
                    Some(TetMesh(id, "deformed", pv.part, new_pts,
                                 DerivedConnectivity(pv),
                                 [i \in 1..Len(srt) |-> NodeId(srt[i])]))],
        nid |-> id + 1, calls |-> <<>>, status |-> "ok"]

\* The scale applied to a result vector: vector.scaled(draw_vectors).
\* Scaling by None raises TypeError (a number times None).
ScalingRaises(draw_vectors) == draw_vectors = None

\* `if draw_vectors:`
DrawsVectors(draw_vectors) == Truthy(draw_vectors)

\* (mutant) no default color map is substituted
RequestedCmap(draw_cmap, draw_isolines, draw_isosurfaces) == draw_cmap

\* `if (draw_isolines or draw_isosurfaces) and not draw_cmap: draw_cmap = "viridis"`
EffectiveCmap(draw_cmap, draw_isolines, draw_isosurfaces) ==
    IF (Truthy(draw_isolines) \/ Truthy(draw_isosurfaces)) /\ ~TruthyStr(draw_cmap)
    THEN Some("viridis")
    ELSE draw_cmap

field_name == "U"

\* The color-map / isoline / isosurface part of add_node_field_results
\* (`if draw_cmap:` and what it nests), on the base mesh, with this call's
\* scalars. Ids from id on are free.
ColorAndExtract(pv, scalars, draw_cmap, draw_isolines, draw_isosurfaces, id) ==
    IF TruthyStr(draw_cmap)
    THEN LET r == AddCmapToMesh(pv.elements, Some(scalars), field_name,
                                draw_cmap[1], "points", "ok")
             il == AddIsolinesToMesh(r.mesh, draw_isolines[1], id)
             id2 == IF Truthy(draw_isolines) THEN id + 1 ELSE id
             is == AddIsosurfacesToMesh(r.mesh, draw_isosurfaces[1], scalars, id2)
             id3 == IF Truthy(draw_isosurfaces) THEN id2 + draw_isosurfaces[1] ELSE id2
         IN [pv |-> [pv EXCEPT
                        !.elements = r.mesh,
                        !.isolines = IF Truthy(draw_isolines)
                                     THEN Some(il.obj) ELSE @,
                        !.isosurfaces = IF Truthy(draw_isosurfaces)
                                        THEN Some(is.objs) ELSE @],
             nid |-> id3,
             calls |-> r.calls
                       \o (IF Truthy(draw_isolines) THEN il.calls ELSE <<>>)
                       \o (IF Truthy(draw_isosurfaces) THEN is.calls ELSE <<>>)]
    ELSE [pv |-> pv, nid |-> id, calls |-> <<>>]

\* The scalars of one add_node_field_results call: the length of each
\* node's scaled result vector, nodes in part_key order.
FieldScalars(part, draw_vectors) ==
    LET srt == SortedBy(part.nodes, "part_key")
    IN [i \in 1..Len(srt) |-> Length(Scaled(srt[i].result, draw_vectors[1]))]

\* PartViewer.add_node_field_results(field, draw_vectors, draw_cmap,
\* draw_isolines, draw_isosurfaces)
PVAddNodeFieldResults(pv, draw_vectors, draw_cmap, draw_isolines, draw_isosurfaces, id) ==
    LET srt == SortedBy(PartNamed(pv.part).nodes, "part_key")
    IN IF Len(srt) > 0 /\ ScalingRaises(draw_vectors)
       THEN [pv |-> pv, nid |-> id, calls |-> <<>>, status |-> "TypeError"]
       ELSE
       LET locations == [i \in 1..Len(srt) |-> srt[i].xyz]
           vectors == [i \in 1..Len(srt) |->
                          Add(srt[i].xyz, Scaled(srt[i].result, draw_vectors[1]))]
           scalars == FieldScalars(PartNamed(pv.part), draw_vectors)
           arrows == [id |-> id, role |-> "field_vectors", owner |-> pv.part,
                      start_pts |-> locations, end_pts |-> vectors]
           pv1 == IF DrawsVectors(draw_vectors)
                  THEN [pv EXCEPT !.field_vectors = Some(arrows)] ELSE pv
           id1 == IF DrawsVectors(draw_vectors) THEN id + 1 ELSE id
           r == ColorAndExtract(pv1, scalars,
                    EffectiveCmap(draw_cmap, draw_isolines, draw_isosurfaces),
                    draw_isolines, draw_isosurfaces, id1)
       IN [pv |-> r.pv, nid |-> r.nid, calls |-> r.calls, status |-> "ok"]

\* self.cmap, the viewer's default color map
cmap == "jet"

\* The sort key of add_mode_shapes: `key=lambda x: x[0].key`
ModeSortKey == "key"

\* One iteration of the loop of add_mode_shapes.
PVAddModeShape(pv, shape, sf, id) ==
    LET n == IF Len(shape.locations) <= Len(shape.vectors)
             THEN Len(shape.locations) ELSE Len(shape.vectors)
        zipped == List([i \in 1..n |-> [k |-> shape.locations[i][ModeSortKey],
                                        v |-> [loc |-> shape.locations[i],
                                               vec |-> shape.vectors[i]]]])
        displacements == Unkeyed(SortedByK(zipped))
        locations == [i \in 1..n |-> Add(displacements[i].loc.xyz,
                                         Scaled(displacements[i].vec, sf))]
        scalars == [i \in 1..n |-> Length(Scaled(displacements[i].vec, sf))]
        mesh == TetMesh(id, "shape", pv.part, locations,
                        DerivedConnectivity(pv),
                        [i \in 1..n |-> NodeId(displacements[i].loc)])
        r == AddCmapToMesh(mesh, Some(scalars), shape.field_name, cmap,
                           "points", "ok")
    IN [pv |-> [pv EXCEPT !.shapes = Append(@, r.mesh)],
        nid |-> id + 1, calls |-> r.calls, status |-> "ok"]

\* PartViewer.add_mode_shapes(shapes, sf)
RECURSIVE PVAddModeShapes(_, _, _, _)
PVAddModeShapes(pv, shapes, sf, id) ==
    IF shapes = <<>>
    THEN [pv |-> pv, nid |-> id, calls |-> <<>>, status |-> "ok"]
    ELSE LET a == PVAddModeShape(pv, Head(shapes), sf, id)
             b == PVAddModeShapes(a.pv, Tail(shapes), sf, a.nid)
         IN [pv |-> b.pv, nid |-> b.nid, calls |-> a.calls \o b.calls,
             status |-> "ok"]

\* ------------------------------------------------------------ ModelViewer
\* The plotter as the receiver of a logged call.
PlotterObj == [id |-> 0, owner |-> 0]

\* What plotter.add receives for an optional attribute: nothing for None.
Opt(o) == IF o = None THEN <<>> ELSE <<Ref(o[1])>>

Refs(s) == [i \in 1..Len(s) |-> Ref(s[i])]

\* self.plotter.add(objs), logged. r carries the plotter and the log.
LogAdd(r, objs) ==
    [r EXCEPT !.plotter = PlotterAdd(@, objs),
              !.calls = Append(@, Call("add", PlotterObj,
                                       [at |-> r.plotter.renderer, objs |-> objs]))]

cone_height == 50

\* (mutant) the offset is the whole cone height
ShiftedPtFullHeight(xyz) == Sub(xyz, Scaled(<<0, 0, 1>>, cone_height))

\* shifted_pts = pts - offsets, offsets = [0, 0, 1] * (cone_height / 2)
ShiftedPt(xyz) == Sub(xyz, Scaled(<<0, 0, 1>>, cone_height \div 2))

\* The Glyph add_bcs builds for one boundary condition.
BcGlyph(b, id) ==
    [id |-> id, role |-> "bc", owner |-> 0, bc |-> b.bc,
     pts |-> [i \in 1..Len(b.nodes) |-> ShiftedPt(b.nodes[i].xyz)],
     vecs |-> [i \in 1..Len(b.nodes) |-> <<0, 0, 1>>],
     c |-> "red", lighting |-> "ambient"]

\* ModelViewer.add_bcs(): one Glyph per boundary condition, added in turn.
RECURSIVE AddBcs(_, _, _)
AddBcs(r, bcs, id) ==
    IF bcs = <<>> THEN [r EXCEPT !.nid = id]
    ELSE AddBcs(LogAdd(r, <<BcGlyph(Head(bcs), id)>>), Tail(bcs), id + 1)

\* One method of a part viewer, by name.
PVApply(op, pv, a, id) ==
    CASE op = "add_node_field_results" ->
            PVAddNodeFieldResults(pv, a.draw_vectors, a.draw_cmap,
                                  a.draw_isolines, a.draw_isosurfaces, id)
      [] op = "add_deformed_shape" -> PVAddDeformedShape(pv, a.step, a.sf, id)
      [] op = "add_mode_shapes" ->
            PVAddModeShapes(pv, List([i \in 1..Len(a.shapes) |->
                                          ModeShape(a.shapes[i])]),
                            a.sf, id)

\* `for part in self.parts: part.<op>(...)`, from part i on; an exception
\* raised by one part ends the loop and leaves the earlier parts changed.
RECURSIVE Broadcast(_, _, _, _, _, _)
Broadcast(ps, i, op, a, id, calls) ==
    IF i > Len(ps)
    THEN [parts |-> ps, nid |-> id, calls |-> calls, status |-> "ok"]
    ELSE With(PVApply(op, ps[i], a, id),
              LAMBDA r :
                IF r.status # "ok"
                THEN [parts |-> ps, nid |-> r.nid, calls |-> calls \o r.calls,
                      status |-> r.status]
                ELSE Broadcast([ps EXCEPT ![i] = r.pv], i + 1, op, a, r.nid,
                               calls \o r.calls))

\* (mutant) panels counted from 0
ShapePanelFromZero(i) == i - 1

\* The panel of the i-th mode-shape frame of a part (i from 1):
\* `for i, shape in enumerate(part.shapes, start=1): self.plotter.at(i)`
ShapePanel(i) == i

\* Plotter.at(n) raises when the layout has no renderer n.
AtRaises(n) == n >= npanels

\* The mode-shape loop of show for one part, from frame i on.
RECURSIVE ShowShapes(_, _, _)
ShowShapes(r, shapes, i) ==
    IF i > Len(shapes) THEN r
    ELSE LET c == Call("at", PlotterObj, ShapePanel(i))
         IN IF AtRaises(ShapePanel(i))
            THEN [r EXCEPT !.calls = Append(@, c), !.status = "RuntimeError"]
            ELSE ShowShapes(
                    LogAdd([r EXCEPT !.calls = Append(@, c),
                                     !.plotter = PlotterAt(@, ShapePanel(i))],
                           <<Ref(shapes[i])>>),
                    shapes, i + 1)

\* The body of `if show_parts:` for the parts from index i on.
RECURSIVE ShowParts(_, _, _)
ShowParts(r, ps, i) ==
    IF i > Len(ps) \/ r.status # "ok" THEN r
    ELSE LET r1 == LogAdd(r, <<Ref(ps[i].elements)>>)
             r2 == LogAdd(r1, Opt(ps[i].isolines))
             r3 == LogAdd(r2, Opt(ps[i].deformed))
             r4 == LogAdd(r3, Opt(ps[i].field_vectors))
         IN ShowParts(ShowShapes(r4, ps[i].shapes, 1), ps, i + 1)

\* `for part in self.parts: self.plotter.add(part._isosurfaces)`
RECURSIVE ShowIsosurfaces(_, _, _)
ShowIsosurfaces(r, ps, i) ==
    IF i > Len(ps) THEN r
    ELSE ShowIsosurfaces(
            LogAdd(r, IF ps[i].isosurfaces = None THEN <<>>
                      ELSE Refs(ps[i].isosurfaces[1])),
            ps, i + 1)

\* FEA2Viewer.show(camera_position): blocks until the window is closed.
BaseShow(r, camera_position) ==
    IF r.status # "ok" THEN r
    ELSE [r EXCEPT
            !.plotter.camera = IF camera_position # None THEN camera_position ELSE @,
            !.calls = @ \o <<Call("show", PlotterObj, None),
                             Call("close", PlotterObj, None)>>]

\* Whether show adds the boundary-condition glyphs / the parts' geometry.
AddsBcs(show_bcs, show_parts) == show_bcs

\* (mutant) the parts' geometry is added whatever show_parts says
AddsPartsAlways(show_bcs, show_parts) == TRUE

AddsParts(show_bcs, show_parts) == show_parts

\* ModelViewer.show(show_bcs, show_parts, camera_position)
ModelShow(show_bcs, show_parts, camera_position) ==
    LET r0 == [plotter |-> plotter, nid |-> nextId, calls |-> <<>>, status |-> "ok"]
        r1 == IF AddsBcs(show_bcs, show_parts) THEN AddBcs(r0, model.bcs, nextId)
              ELSE r0
        r2 == ShowIsosurfaces(r1, parts, 1)
        r3 == IF AddsParts(show_bcs, show_parts) THEN ShowParts(r2, parts, 1) ELSE r2
    IN BaseShow(r3, camera_position)

\* Grid(s=size, res=resolution), colored
Grid(id, size, resolution, color) ==
    [id |-> id, role |-> "grid", owner |-> 0, s |-> size, res |-> resolution,
     c |-> color]

\* (mutant) add_grid builds a new Grid on every call
BuildsGridAlways(g) == TRUE

\* Whether add_grid builds a new Grid: `if self.grid is None`
BuildsGrid(g) == g = None

\* FEA2Viewer.add_grid(size, resolution, color, alpha)
FEA2AddGrid(g, pl, id, size, resolution, color) ==
    IF BuildsGrid(g)
    THEN LET new == Grid(id, size, resolution, color)
         IN [grid |-> Some(new), plotter |-> PlotterAdd(pl, <<new>>), nid |-> id + 1]
    ELSE [grid |-> g, plotter |-> PlotterAdd(pl, <<g[1]>>), nid |-> id]

\* FEA2Viewer.remove_grid()
FEA2RemoveGrid(g, pl) == IF g # None THEN PlotterRemove(pl, g[1]) ELSE pl

\* (mutant) add_part tracks the new viewer
PartsAppended(ps, part_viewer) == Append(ps, part_viewer)

\* The part list after add_part: the new viewer is not appended.
PartsAfterAddPart(ps, part_viewer) == ps

\* ------------------------------------------------------------------- Init
\* ModelViewer(model, shape=...), show_grid left at its default False:
\* FEA2Viewer.__init__ runs first, then one PartViewer per part. The model
\* has one part or MaxParts parts, the layout one panel (the default 1x1)
\* or MaxPanels panels.
Init ==
    \E io \in InputOrders, ko \in KeyOrders, np \in {1, MaxParts},
       n \in {1, MaxPanels} :
        LET m == MkModel(io, ko, np)
            show_grid == FALSE
            empty == [panels |-> [i \in 1..n |-> <<>>], renderer |-> 0,
                      camera |-> None]
            g == IF show_grid
                 THEN FEA2AddGrid(None, empty, 1, <<5000, 5000>>, <<10, 10>>, "gray")
                 ELSE [grid |-> None, plotter |-> empty, nid |-> 1]
        IN /\ fea = [io |-> io, ko |-> ko, np |-> np]
           /\ npanels = n
           /\ grid = g.grid
           /\ plotter = g.plotter
           /\ parts = [i \in 1..np |-> PartViewer(m.parts[i], g.nid + 2 * (i - 1))]
           /\ nextId = g.nid + 2 * np
           /\ ncalls = 0
           /\ last = [op |-> "__init__", args |-> [show_grid |-> show_grid],
                      calls |-> <<>>, status |-> "ok", ret |-> None]

\* A call is made: the bookkeeping every action shares.
Called(op, args, calls, status, ret) ==
    /\ ncalls' = ncalls + 1
    /\ last' = [op |-> op, args |-> args, calls |-> calls, status |-> status,
                ret |-> ret]

CanCall == ncalls < MaxCalls

\* ---------------------------------------------------------------- actions
add_grid ==
    /\ CanCall
    /\ \E color \in {"gray", "black"} :
        LET r == FEA2AddGrid(grid, plotter, nextId, <<5000, 5000>>, <<10, 10>>, color)
        IN /\ grid' = r.grid
           /\ plotter' = r.plotter
           /\ nextId' = r.nid
           /\ Called("add_grid", [color |-> color], <<>>, "ok", None)
    /\ UNCHANGED <<fea, npanels, parts>>

remove_grid ==
    /\ CanCall
    /\ plotter' = FEA2RemoveGrid(grid, plotter)
    /\ Called("remove_grid", <<>>, <<>>, "ok", None)
    /\ UNCHANGED <<fea, npanels, parts, grid, nextId>>

\* add_objects(obj): a drawable of the caller's.
add_objects ==
    /\ CanCall
    /\ plotter' = PlotterAdd(plotter, <<[id |-> nextId, role |-> "object", owner |-> 0]>>)
    /\ nextId' = nextId + 1
    /\ Called("add_objects", <<>>, <<>>, "ok", None)
    /\ UNCHANGED <<fea, npanels, parts, grid>>

\* viewer.add_cmap_to_mesh(viewer.parts[p].elements, values)
add_cmap_to_mesh ==
    /\ CanCall
    /\ \E p \in {1} :
       \E values \in {None, Some(<<>>), Some([i \in 1..MaxNodes |-> i])} :
       \E tk \in {"ok", "raises"} :
        LET mesh == parts[p].elements
            r == AddCmapToMesh(mesh, values, "title", "jet", "points", tk)
        IN /\ tk = "raises" => values # None /\ Len(values[1]) # Len(mesh.vertices)
           /\ parts' = [parts EXCEPT ![p].elements = r.mesh]
           /\ Called("add_cmap_to_mesh", [mesh |-> mesh, values |-> values],
                     r.calls, r.status, r.ret)
    /\ UNCHANGED <<fea, npanels, grid, plotter, nextId>>

\* add_part(part), for a part of the model or one that is not.
add_part ==
    /\ CanCall
    /\ \E name \in {spare} :
        LET part == PartNamed(name)
            part_viewer == PartViewer(part, nextId)
        IN /\ plotter' = PlotterAdd(plotter, <<Ref(part_viewer.elements)>>)
           /\ parts' = PartsAfterAddPart(parts, part_viewer)
           /\ Called("add_part", [part |-> part.name], <<>>, "ok", None)
    /\ nextId' = nextId + 2
    /\ UNCHANGED <<fea, npanels, grid>>

add_bcs ==
    /\ CanCall
    /\ LET r == AddBcs([plotter |-> plotter, nid |-> nextId, calls |-> <<>>,
                        status |-> "ok"], model.bcs, nextId)
       IN /\ plotter' = r.plotter
          /\ nextId' = r.nid
          /\ Called("add_bcs", <<>>, r.calls, "ok", None)
    /\ UNCHANGED <<fea, npanels, parts, grid>>

\* A broadcast to the tracked part viewers.
BroadcastCall(op, a) ==
    \E r \in {Broadcast(parts, 1, op, a, nextId, <<>>)} :
       /\ parts' = r.parts
       /\ nextId' = r.nid
       /\ Called(op, a, r.calls, r.status, None)
       /\ UNCHANGED <<fea, npanels, grid, plotter>>

add_node_field_results ==
    /\ CanCall
    /\ \E a \in FieldRequests :
        BroadcastCall("add_node_field_results",
                      [draw_vectors |-> a[1], draw_cmap |-> a[2],
                       draw_isolines |-> a[3], draw_isosurfaces |-> a[4]])

add_stess_field_results ==
    /\ CanCall
    /\ Called("add_stess_field_results", <<>>, <<>>, "NotImplementedError", None)
    /\ UNCHANGED <<fea, npanels, parts, grid, plotter, nextId>>

add_deformed_shape ==
    /\ CanCall
    /\ \E step \in Steps, sf \in ScaleFactors :
        BroadcastCall("add_deformed_shape", [step |-> step, sf |-> sf])

add_mode_shapes ==
    /\ CanCall
    /\ \E shapes \in ShapeInputs, sf \in ScaleFactors :
        BroadcastCall("add_mode_shapes", [shapes |-> shapes, sf |-> sf])

show ==
    /\ CanCall
    /\ \E show_bcs \in BOOLEAN, show_parts \in BOOLEAN,
          camera_position \in {None} :
        LET r == ModelShow(show_bcs, show_parts, camera_position)
        IN /\ plotter' = r.plotter
           /\ nextId' = r.nid
           /\ Called("show", [show_bcs |-> show_bcs, show_parts |-> show_parts,
                              camera_position |-> camera_position],
                     r.calls, r.status, None)
    /\ UNCHANGED <<fea, npanels, parts, grid>>

Next ==
    \/ add_grid
    \/ remove_grid
    \/ add_objects
    \/ add_cmap_to_mesh
    \/ add_part
    \/ add_bcs
    \/ add_node_field_results
    \/ add_stess_field_results
    \/ add_deformed_shape
    \/ add_mode_shapes
    \/ show

Spec == Init /\ [][Next]_vars

\* Sequences of add_grid / remove_grid calls only.
NextGrid ==
    \/ add_grid
    \/ remove_grid

SpecGrid == Init /\ [][NextGrid]_vars

\* ================================================================= claims
\* All objects the plotter holds, over all panels.
Held == Flatten(plotter.panels)

HeldWith(role) == SelectSeq(Held, LAMBDA o : o.role = role)

\* The objects the last call handed to plotter.add, in order.
AddedBy(calls) ==
    Flatten([k \in 1..Len(calls) |->
                IF calls[k].f = "add" THEN calls[k].arg.objs ELSE <<>>])

\* The i-th node of a part in part_key order, stated without the sort.
NthNode(p, i) ==
    LET ns == {PartNamed(p).nodes[k] : k \in 1..Len(PartNamed(p).nodes)}
    IN CHOOSE n \in ns : Cardinality({m \in ns : m.part_key < n.part_key}) = i - 1

NodeCount(p) == Len(PartNamed(p).nodes)

\* C1: after add_deformed_shape(step, sf) every tracked part viewer holds a
\* deformed mesh with one vertex per node of the part, vertex i being the
\* rest position of the i-th node in part_key order plus sf times its
\* displacement at step, and with the viewer's elements_connectivity as
\* cells; with sf = 2, node 0 of part 1 at (0,0,0) displaced by (1,0,0)
\* lands at (2,0,0) and a node with zero displacement stays where it was.
C1_DeformedShape ==
    (last.op = "add_deformed_shape") =>
        /\ last.status = "ok"
        /\ \A p \in 1..Len(parts) :
            /\ parts[p].deformed # None
            /\ LET d == parts[p].deformed[1]
                   step == last.args.step
                   sf == last.args.sf
               IN /\ Len(d.vertices) = NodeCount(parts[p].part)
                  /\ \A i \in 1..Len(d.vertices) :
                        LET n == NthNode(parts[p].part, i)
                        IN /\ d.vertices[i][1] = n.xyz[1] + sf * n.disp[step][1]
                           /\ d.vertices[i][2] = n.xyz[2] + sf * n.disp[step][2]
                           /\ d.vertices[i][3] = n.xyz[3] + sf * n.disp[step][3]
                           /\ (n.disp[step] = <<0, 0, 0>> => d.vertices[i] = n.xyz)
                  /\ d.cells = parts[p].elements_connectivity
                  /\ d.cells = parts[p].elements.cells
                  /\ (sf = 2 /\ step = 1 /\ p = 1 => d.vertices[1] = <<2, 0, 0>>)

\* C1 witness: a two-part model whose nodes arrive in reverse order has been
\* deformed with sf = 2.
C1_Witness ==
    /\ last.op = "add_deformed_shape"
    /\ last.args.sf = 2
    /\ fea.np = MaxParts
    /\ fea.io = "reverse"
    /\ parts[1].deformed # None
    /\ parts[1].deformed[1].vertices[1] = <<2, 0, 0>>
    /\ parts[1].deformed[1].vertices[2] = parts[1].vertices[2]

\* The glyph instances add_bcs emitted for boundary condition b sit at the
\* nodes of b moved by dz along Z, one per node.
GlyphAt(g, b, dz) ==
    /\ g.role = "bc"
    /\ g.bc = b.bc
    /\ Len(g.pts) = Len(b.nodes)
    /\ \A i \in 1..Len(b.nodes) :
          g.pts[i] = <<b.nodes[i].xyz[1], b.nodes[i].xyz[2], b.nodes[i].xyz[3] + dz>>

BcsGlyphs(dz) ==
    (last.op = "add_bcs") =>
        LET added == AddedBy(last.calls)
        IN /\ Len(added) = Len(model.bcs)
           /\ \A b \in 1..Len(model.bcs) : GlyphAt(added[b], model.bcs[b], dz)
           /\ \A b \in 1..Len(added) :
                Cardinality({k \in 1..Len(Held) : Held[k].id = added[b].id}) = 1

\* C2 (as stated): add_bcs emits one cone glyph instance per
\* (boundary condition, node) pair, each at the node's coordinate plus
\* cone_height/2 = 25 along Z.
C2_GlyphsAbove == BcsGlyphs(25)

\* C2 (amended): add_bcs emits one cone glyph instance per
\* (boundary condition, node) pair, each at the node's coordinate minus
\* cone_height/2 = 25 along Z, that is at (x, y, z - 25).
C2_GlyphsBelow == BcsGlyphs(-25)

\* C2 witness: add_bcs has put the glyphs of both boundary conditions of a
\* two-part model on the plotter.
C2_Witness ==
    /\ last.op = "add_bcs"
    /\ fea.np = MaxParts
    /\ Len(HeldWith("bc")) = 2
    /\ Len(HeldWith("bc")[1].pts) = MaxNodes

\* C3 (as stated): add_cmap_to_mesh returns the mesh object it was given,
\* and when values is None or an empty list it applies no color map and
\* attaches no scale bar.
C3_NoOpWhenEmpty ==
    (last.op = "add_cmap_to_mesh") =>
        /\ last.ret = Some(last.args.mesh.id)
        /\ (last.args.values = None \/ last.args.values = Some(<<>>)) =>
                /\ last.calls = <<>>
                /\ parts[1].elements = last.args.mesh

\* C3 (amended): add_cmap_to_mesh returns the mesh object it was given
\* whenever it returns; it is a no-op exactly when values is None; any
\* other values, an empty list included, are handed to the toolkit's color
\* mapping, and when that succeeds the color map and the scale bar are on
\* the mesh.
C3_NoOpOnlyWhenNone ==
    (last.op = "add_cmap_to_mesh") =>
        /\ (last.status = "ok" => last.ret = Some(last.args.mesh.id))
        /\ parts[1].elements.id = last.args.mesh.id
        /\ (last.args.values = None =>
                /\ last.status = "ok"
                /\ last.calls = <<>>
                /\ parts[1].elements = last.args.mesh)
        /\ (last.args.values # None =>
                /\ Len(last.calls) >= 1
                /\ last.calls[1].f = "cmap"
                /\ last.calls[1].obj = last.args.mesh.id
                /\ last.calls[1].arg.values = last.args.values[1]
                /\ (last.status = "ok" =>
                        /\ parts[1].elements.cmap # None
                        /\ parts[1].elements.cmap[1].values = last.args.values[1]
                        /\ parts[1].elements.scalarbar = Some("title")))

\* C3 witness: the call was made with an empty list and the toolkit took it.
C3_Witness ==
    /\ last.op = "add_cmap_to_mesh"
    /\ last.args.values = Some(<<>>)
    /\ last.status = "ok"
    /\ parts[1].elements.cmap # None
    /\ last.args.mesh.cmap = None

\* The objects a part viewer has derived.
Derived(pv) ==
    (IF pv.isolines = None THEN <<>> ELSE pv.isolines)
    \o (IF pv.isosurfaces = None THEN <<>> ELSE pv.isosurfaces[1])
    \o (IF pv.deformed = None THEN <<>> ELSE pv.deformed)
    \o (IF pv.field_vectors = None THEN <<>> ELSE pv.field_vectors)
    \o pv.shapes

\* C4: add_part(part) puts the part's element mesh on the plotter and
\* leaves the tracked part viewers as they were: they stay the viewers of
\* the model's own parts, so no isolines, isosurfaces, deformed mesh,
\* arrows or mode-shape frame is ever computed or shown for a part that
\* came in through add_part only.
C4_AddPartUntracked ==
    /\ Len(parts) = fea.np
    /\ \A p \in 1..Len(parts) :
        /\ parts[p].part = p
        /\ \A k \in 1..Len(Derived(parts[p])) : Derived(parts[p])[k].owner = p
    /\ \A k \in 1..Len(Held) : Held[k].owner = spare => Held[k].role = "elements"
    /\ (last.op = "add_part" =>
            LET cur == plotter.panels[plotter.renderer + 1]
            IN /\ cur # <<>>
               /\ cur[Len(cur)] = [id |-> nextId - 1, role |-> "elements",
                                   owner |-> last.args.part])

\* C4 witness: after add_part of a part outside the model, a deformed shape
\* was added: the tracked viewers have one, and the plotter holds the
\* outside part's element mesh.
C4_Witness ==
    /\ last.op = "add_deformed_shape"
    /\ \E k \in 1..Len(Held) : Held[k].owner = spare /\ Held[k].role = "elements"
    /\ \A p \in 1..Len(parts) : parts[p].deformed # None

IsFieldCall == last'.op = "add_node_field_results" /\ ncalls' = ncalls + 1

\* The arrows of part p for scale dv: one per node, in part_key order, from
\* the node to the node plus dv times its result vector.
ArrowsOf(a, p, dv) ==
    /\ Len(a.start_pts) = NodeCount(p)
    /\ Len(a.end_pts) = NodeCount(p)
    /\ \A i \in 1..NodeCount(p) :
          LET n == NthNode(p, i)
          IN /\ a.start_pts[i] = n.xyz
             /\ a.end_pts[i] = <<n.xyz[1] + dv * n.result[1],
                                 n.xyz[2] + dv * n.result[2],
                                 n.xyz[3] + dv * n.result[3]>>

\* C5: add_node_field_results with a falsy draw_vectors (0 or None)
\* completes and leaves field_vectors as it was (unset); with a nonzero
\* draw_vectors it stores, for every part, one arrow per node from the node
\* to the node plus draw_vectors times the result vector.
C5_DrawVectors ==
    [][IsFieldCall =>
        LET dv == last'.args.draw_vectors
        IN /\ last'.status = "ok"
           /\ (~Truthy(dv) =>
                \A p \in 1..Len(parts) :
                    parts'[p].field_vectors = parts[p].field_vectors)
           /\ (Truthy(dv) =>
                \A p \in 1..Len(parts) :
                    /\ parts'[p].field_vectors # None
                    /\ ArrowsOf(parts'[p].field_vectors[1], p, dv[1]))]_vars

GridInv ==
    /\ Len(HeldWith("grid")) <= 1
    /\ (grid = None => HeldWith("grid") = <<>>)
    /\ (grid # None => \A k \in 1..Len(HeldWith("grid")) :
                            HeldWith("grid")[k] = grid[1])
    /\ (last.op = "remove_grid" => HeldWith("grid") = <<>>)
    /\ (last.op = "add_grid" => grid # None /\ HeldWith("grid") = <<grid[1]>>)

SameSurface == plotter' = plotter /\ grid' = grid /\ nextId' = nextId

PartRoles == {"elements", "isolines", "deformed", "field_vectors", "shape"}

\* C7 (as stated): show adds part geometry only when show_parts is true and
\* glyphs only when show_bcs is true; show(show_bcs=False,
\* show_parts=False) adds no drawable at all.
C7_ShowAddsNothing ==
    (last.op = "show") =>
        LET added == AddedBy(last.calls)
        IN /\ \A k \in 1..Len(added) :
                /\ (added[k].role = "bc" => last.args.show_bcs)
                /\ (added[k].role # "bc" => last.args.show_parts)
           /\ (~last.args.show_bcs /\ ~last.args.show_parts => added = <<>>)

\* The isosurfaces the tracked part viewers hold, in part order.
StoredIsosurfaces ==
    Flatten([p \in 1..Len(parts) |->
                IF parts[p].isosurfaces = None THEN <<>>
                ELSE Refs(parts[p].isosurfaces[1])])

\* C7 (amended): show adds boundary-condition glyphs only when show_bcs is
\* true, and element meshes, isolines, deformed meshes, arrows and
\* mode-shape frames only when show_parts is true; the parts' stored
\* isosurfaces are added whatever the flags, so show(show_bcs=False,
\* show_parts=False) adds exactly the stored isosurfaces and nothing else.
C7_ShowAddsOnlyIsosurfaces ==
    (last.op = "show") =>
        LET added == AddedBy(last.calls)
        IN /\ \A k \in 1..Len(added) :
                /\ (added[k].role = "bc" => last.args.show_bcs)
                /\ (added[k].role \in PartRoles => last.args.show_parts)
           /\ SelectSeq(added, LAMBDA o : o.role = "isosurface") = StoredIsosurfaces
           /\ (~last.args.show_bcs /\ ~last.args.show_parts =>
                    added = StoredIsosurfaces)

\* C7 witness: show(False, False) after isosurfaces were computed.
C7_Witness ==
    /\ last.op = "show"
    /\ ~last.args.show_bcs
    /\ ~last.args.show_parts
    /\ StoredIsosurfaces # <<>>
    /\ HeldWith("isosurface") # <<>>

\* The (panel, frame) pairs of the last show: the frames it added and the
\* panel each was added at.
FramesShown ==
    LET cs == SelectSeq(last.calls,
                        LAMBDA c : c.f = "add" /\ c.arg.objs # <<>>
                                   /\ c.arg.objs[1].role = "shape")
    IN [k \in 1..Len(cs) |-> [at |-> cs[k].arg.at, frame |-> cs[k].arg.objs[1]]]

PanelsAsked ==
    LET cs == SelectSeq(last.calls, LAMBDA c : c.f = "at")
    IN [k \in 1..Len(cs) |-> cs[k].arg]

\* C8 (as stated): in show with show_parts true every accumulated
\* mode-shape frame goes to a panel of its own, indexed from 1: no two
\* frames are added to the same panel and every panel index used exists in
\* the layout.
C8_DistinctPanels ==
    (last.op = "show" /\ last.args.show_parts) =>
        /\ \A j, k \in 1..Len(FramesShown) :
              j # k => FramesShown[j].at # FramesShown[k].at
        /\ \A k \in 1..Len(PanelsAsked) : PanelsAsked[k] < npanels

\* C8 (amended): in show with show_parts true the j-th accumulated frame of
\* a part (j from 1) goes to panel j: the frames of one part go to distinct
\* panels, the j-th frames of different parts share panel j, and panel j
\* exists only in a layout of more than j panels; show fails at the first
\* frame whose panel does not exist (with the default 1x1 layout, at the
\* first frame).
C8_PanelPerFrameIndex ==
    (last.op = "show" /\ last.args.show_parts) =>
        /\ \A k \in 1..Len(FramesShown) :
              LET o == FramesShown[k].frame
                  j == FramesShown[k].at
              IN /\ j \in 1..Len(parts[o.owner].shapes)
                 /\ parts[o.owner].shapes[j].id = o.id
                 /\ j < npanels
        /\ \A j, k \in 1..Len(FramesShown) :
              (j # k /\ FramesShown[j].frame.owner = FramesShown[k].frame.owner)
                  => FramesShown[j].at # FramesShown[k].at
        /\ (last.status = "ok" <=>
                \A p \in 1..Len(parts) : Len(parts[p].shapes) < npanels)
        /\ (last.status = "ok" =>
                \A p \in 1..Len(parts) : \A j \in 1..Len(parts[p].shapes) :
                    \E k \in 1..Len(FramesShown) :
                        FramesShown[k] = [at |-> j, frame |-> Ref(parts[p].shapes[j])])
        /\ (last.status # "ok" =>
                PanelsAsked[Len(PanelsAsked)] >= npanels)

\* C8 witness: two parts, enough panels: the first frames of both parts
\* were added to panel 1.
C8_Witness ==
    /\ last.op = "show"
    /\ last.args.show_parts
    /\ last.status = "ok"
    /\ \E j, k \in 1..Len(FramesShown) :
          /\ FramesShown[j].frame.owner # FramesShown[k].frame.owner
          /\ FramesShown[j].at = 1
          /\ FramesShown[k].at = 1

\* The scalars of part p for scale dv, stated without the sort.
ExpScalars(p, dv) ==
    [i \in 1..NodeCount(p) |-> Length(Scaled(NthNode(p, i).result, dv))]

Meshes(pv) ==
    <<pv.elements>> \o (IF pv.deformed = None THEN <<>> ELSE pv.deformed)
    \o pv.shapes

\* C10: every mesh a part viewer builds (base, deformed, each mode shape)
\* has one vertex per node of the part, and its vertex i comes from the
\* node base-mesh vertex i comes from, the i-th node in part_key order,
\* whatever the keys of the nodes and the order they arrive in.
C10_VertexOrder ==
    \A p \in 1..Len(parts) :
        /\ \A i \in 1..Len(parts[p].elements.of) :
              /\ parts[p].elements.of[i] = NodeId(NthNode(parts[p].part, i))
              /\ parts[p].elements.vertices[i] = NthNode(parts[p].part, i).xyz
        /\ \A k \in 1..Len(Meshes(parts[p])) :
              /\ Len(Meshes(parts[p])[k].vertices) = NodeCount(parts[p].part)
              /\ Meshes(parts[p])[k].of = parts[p].elements.of

\* C10 restricted to the base and deformed meshes (what the code keeps).
C10_BaseAndDeformedOrder ==
    \A p \in 1..Len(parts) :
        \A k \in 1..Len(Meshes(parts[p])) :
            Meshes(parts[p])[k].role # "shape" =>
              /\ Len(Meshes(parts[p])[k].vertices) = NodeCount(parts[p].part)
              /\ Meshes(parts[p])[k].of = parts[p].elements.of

====
